---- MODULE Spec2Model ----
(***************************************************************************)
(* State-machine model of the YouTube note scripts:                        *)
(*   youtube_to_notes.py  (subscriptions -> recent videos -> Fabric notes) *)
(*   youtube_to_note.py   (typed URLs -> Fabric notes)                     *)
(* A string is a sequence of one-character strings.  A file path is the    *)
(* record [dir, name] that os.path.join builds from a directory and a file *)
(* name holding no separator.                                              *)
(***************************************************************************)
EXTENDS Integers, Sequences, FiniteSets, TLC

VARIABLES
    prog,            \* which script was started: "notes" or "note"
    pc,              \* position of the running script
    run,             \* number of the current run of the script
    fs,              \* the filesystem: set of paths that exist
    acct,            \* youtube_to_notes.main: account being handled (1 crypto, 2 business)
    nsubs,           \* fetch_recent_videos: number of items of subscriptions_response
    chan,            \* fetch_recent_videos: index of the subscription being queried
    responses,       \* fetch_recent_videos: what each channel query returned so far
    videos,          \* the list fetch_recent_videos builds and process_videos walks
    idx,             \* index of the video (or URL) being handled
    attempt,         \* process_videos: loop variable of range(MAX_RETRIES)
    success,         \* process_videos: the local flag success
    launched,        \* number of subprocess.run calls made for the current video
    succ_at,         \* attempt number whose subprocess.run returned success (0: none)
    existed,         \* what os.path.exists(output_path) answered for the current video
    left_at,         \* ghost: the attempt of the current video that first left a file, 0 if none
    log,             \* one entry per message that ends a video: skip, saved, failed
    found,           \* per account, the count logged by "Found N videos" (-1: not yet)
    subs_failed,     \* per account, whether subscriptions().list raised in this run
    auth_tried,      \* per account, whether authenticate_youtube_oauth was called
    raised_in,       \* function whose exception ended the script ("": none)
    prev_succeeded,  \* <<dir, title>> pairs saved by an earlier run
    video_urls,      \* youtube_to_note.main: the URLs typed in
    title,           \* youtube_to_note.main: title fetched for the current URL
    fs_start,        \* the paths that existed when the current run started
    san_title,       \* sanitizer alone: the title given to it
    san_calls,       \* sanitizer alone: the results of the calls made so far
    win_script,      \* discovery window alone: "notes" or "links"
    win_now,         \* discovery window alone: the clock, in seconds
    win_published,   \* discovery window alone: publication time of the channel's video
    win_pc,          \* discovery window alone: position in fetch_recent_videos
    win_threshold,   \* discovery window alone: the string threshold_date
    win_result,      \* discovery window alone: what fetch_recent_videos returned
    inst             \* two instances of process_videos: position of each

vars == <<prog, pc, run, fs, acct, nsubs, chan, responses, videos, idx, attempt,
          success, launched, succ_at, existed, left_at, log, found, subs_failed,
          auth_tried, raised_in, prev_succeeded, video_urls, title,
          fs_start, san_title, san_calls, win_script, win_now, win_published, win_pc,
          win_threshold, win_result, inst>>

\* the variables of the two scripts
script_vars == <<prog, pc, run, fs, acct, nsubs, chan, responses, videos, idx, attempt,
                 success, launched, succ_at, existed, left_at, log, found, subs_failed,
                 auth_tried, raised_in, prev_succeeded, video_urls, title, fs_start>>

\* the variables of the sanitizer taken alone, of the discovery window taken
\* alone, and of the two concurrent instances
san_vars == <<san_title, san_calls>>
win_vars == <<win_script, win_now, win_published, win_pc, win_threshold, win_result>>
other_vars == <<san_vars, win_vars, inst>>

\* values of the variables a specification does not use
NoSanitizer == san_title = <<>> /\ san_calls = <<>>
NoWindow ==
    /\ win_script = "" /\ win_now = 0 /\ win_published = 0 /\ win_pc = ""
    /\ win_threshold = <<>> /\ win_result = <<>>
NoInstances == inst = <<>>

----------------------------------------------------------------------------
\* Bounds of the model.
MaxSubs == 2      \* subscriptions one list request returns
MaxItems == 2     \* videos the channel searches of one account return in all
MaxRuns == 2      \* times a script is started on the same filesystem
MaxUrls == 2      \* URLs typed into youtube_to_note
MaxTitleLen == 3  \* length of a title given to the sanitizer alone
MaxCalls == 2     \* calls of the sanitizer on one title
MaxClock == 8     \* seconds the clock may stand after the first possible instant

\* youtube_to_notes.py: MAX_RETRIES = 2
MAX_RETRIES == 2

\* youtube_to_notes.py and youtube_to_links.py: DAYS_THRESHOLD = 7
DAYS_THRESHOLD == 7

----------------------------------------------------------------------------
\* Strings.

Upper == <<"A","B","C","D","E","F","G","H","I","J","K","L","M",
           "N","O","P","Q","R","S","T","U","V","W","X","Y","Z">>
Lower == <<"a","b","c","d","e","f","g","h","i","j","k","l","m",
           "n","o","p","q","r","s","t","u","v","w","x","y","z">>

\* str.lower() on one character
lower_char(c) ==
    IF \E i \in 1..26 : Upper[i] = c
    THEN Lower[CHOOSE i \in 1..26 : Upper[i] = c]
    ELSE c

\* str.lower()
lower(s) == [i \in 1..Len(s) |-> lower_char(s[i])]

\* the Python test  sub in s
in_str(sub, s) ==
    \E i \in 1..(Len(s) - Len(sub) + 1) : SubSeq(s, i, i + Len(sub) - 1) = sub

\* the character class of re.sub(r'[<>:"/\\|?*]', '', ...)
IllegalChars == {"<", ">", ":", "\"", "/", "\\", "|", "?", "*"}

NotIllegal(c) == c \notin IllegalChars

NotIllegalButColon(c) == c \notin (IllegalChars \ {":"})

\* a character class that lacks the colon
re_sub_illegal_no_colon(s) == SelectSeq(s, NotIllegalButColon)

\* re.sub(r'[<>:"/\\|?*]', '', s)
re_sub_illegal(s) == SelectSeq(s, NotIllegal)

\* re.sub(r'\s+', '_', s): every run of spaces and tabs becomes one underscore
RECURSIVE replace_whitespace_runs(_)
replace_whitespace_runs(s) ==
    IF s = <<>> THEN <<>>
    ELSE IF Head(s) \in {" ", "\t"}
         THEN IF Len(s) > 1 /\ s[2] \in {" ", "\t"}
              THEN replace_whitespace_runs(Tail(s))
              ELSE <<"_">> \o replace_whitespace_runs(Tail(s))
         ELSE <<Head(s)>> \o replace_whitespace_runs(Tail(s))

\* s.replace(" ", "_")
replace_space(s) == [i \in 1..Len(s) |-> IF s[i] = " " THEN "_" ELSE s[i]]

\* a file name that also carries the number of the run (hidden state)
safe_title_per_run(t) == replace_space(re_sub_illegal(t)) \o <<"_", ToString(run)>>

\* a file name that keeps the illegal characters of the title
safe_title_keeps_illegal(t) == replace_space(t)

\* youtube_to_notes.py line 131
safe_title(t) == replace_space(re_sub_illegal(t))

\* youtube_to_note.py sanitize_filename
sanitize_filename(t) == replace_space(re_sub_illegal(t))

\* f"{name}.txt"
txt(name) == name \o <<".", "t", "x", "t">>

\* os.path.join(dir, file) for a file name without separator
os_path_join(dir, file) == [dir |-> dir, name |-> file]

\* youtube_to_notes.py line 132
output_path(save_path, t) == os_path_join(save_path, txt(safe_title(t)))

\* NOTES_DIR
NOTES_DIR == <<"~", "Documents", "Notes">>

\* youtube_to_note.py line 84
note_output_path(t) == os_path_join(NOTES_DIR, txt(sanitize_filename(t)))

\* os.path.exists
os_path_exists(p) == p \in fs

----------------------------------------------------------------------------
\* Configuration of youtube_to_notes.py.

\* windows_to_wsl_path on a path given as its segments: a path under /mnt is
\* returned unchanged, a drive path C:/x becomes /mnt/c/x.
windows_to_wsl_path(p) ==
    IF Len(p) > 0 /\ p[1] = "/mnt" THEN p
    ELSE <<"/mnt", lower(<<p[1]>>)[1]>> \o Tail(p)

\* WINDOWS_PATHS[...save_path], after windows_to_wsl_path
crypto_save_path == windows_to_wsl_path(<<"/mnt", "c", "YouTube_Crypto", "Notes">>)
business_save_path == windows_to_wsl_path(<<"/mnt", "c", "YouTube_Business", "Notes">>)

Accounts == {1, 2}
save_path(a) == IF a = 1 THEN crypto_save_path ELSE business_save_path

\* f"https://www.youtube.com/watch?v={video_id}"
watch_url(video_id) == <<"https://www.youtube.com/watch?v=", video_id>>

----------------------------------------------------------------------------
\* The videos the catalog provider may return.

BigUpdate == <<"B","i","g"," ","U","p","d","a","t","e">>
BigUpdateShorts == BigUpdate \o <<" ","#","S","h","o","r","t","s">>
BigColonUpdate == <<"B","i","g",":"," ","U","p","d","a","t","e">>

Catalog ==
    { [videoId |-> "v1", title |-> BigUpdate],
      [videoId |-> "v2", title |-> BigUpdateShorts],
      [videoId |-> "v3", title |-> BigColonUpdate] }

\* sequences over S of length at most n
SeqUpTo(S, n) == UNION { [1..k -> S] : k \in 0..n }

\* the items of one search().list response
ItemLists == SeqUpTo(Catalog, MaxItems)

----------------------------------------------------------------------------
\* Initial state: a script has just been started.

\* notes a previous use may have left in the destination directories
ExistingNotes(p) ==
    IF p = "notes"
    THEN {output_path(crypto_save_path, BigUpdate), output_path(business_save_path, BigUpdate)}
    ELSE {note_output_path(BigUpdate)}

NoEntry == [a \in Accounts |-> FALSE]

Init ==
    /\ prog \in {"notes", "note"}
    /\ pc = IF prog = "notes" THEN "auth" ELSE "input"
    /\ run = 1
    /\ fs \in {{}, ExistingNotes(prog)}
    /\ acct = 1
    /\ nsubs = 0
    /\ chan = 0
    /\ responses = <<>>
    /\ videos = <<>>
    /\ idx = 0
    /\ attempt = 0
    /\ success = FALSE
    /\ launched = 0
    /\ succ_at = 0
    /\ existed = FALSE /\ left_at = 0
    /\ log = <<>>
    /\ found = [a \in Accounts |-> -1]
    /\ subs_failed = NoEntry
    /\ auth_tried = NoEntry
    /\ raised_in = ""
    /\ prev_succeeded = {}
    /\ video_urls = <<>>
    /\ title = <<>>
    /\ fs_start = fs
    /\ NoSanitizer /\ NoWindow /\ NoInstances

----------------------------------------------------------------------------
\* youtube_to_notes.py: authenticate_youtube_oauth, called from main.

fetch_vars == <<nsubs, chan, responses>>
video_vars == <<idx, attempt, success, launched, succ_at, existed, left_at>>
note_vars == <<video_urls, title>>

\* the credentials file is read, the OAuth flow runs, the service is built
authenticate_ok ==
    /\ prog = "notes" /\ pc = "auth"
    /\ auth_tried' = [auth_tried EXCEPT ![acct] = TRUE]
    /\ pc' = "fetch_subs"
    /\ UNCHANGED <<other_vars, fs_start, prog, run, fs, acct, fetch_vars, videos, video_vars, log, found, subs_failed, raised_in, prev_succeeded, note_vars>>

\* from_client_secrets_file or run_local_server raises: main has no handler,
\* the exception ends the script
authenticate_raise ==
    /\ prog = "notes" /\ pc = "auth"
    /\ auth_tried' = [auth_tried EXCEPT ![acct] = TRUE]
    /\ raised_in' = "authenticate_youtube_oauth"
    /\ pc' = "raised"
    /\ UNCHANGED <<other_vars, fs_start, prog, run, fs, acct, fetch_vars, videos, video_vars, log, found, subs_failed, prev_succeeded, note_vars>>

----------------------------------------------------------------------------
\* youtube_to_notes.py: fetch_recent_videos.

Shorts == <<"#", "s", "h", "o", "r", "t", "s">>

\* the test without lower(): only the lower-case spelling is caught
not_shorts_case_sensitive(v) == ~ in_str(Shorts, v.title)

\* line 103:  "#shorts" not in title.lower()
not_shorts(v) == ~ in_str(Shorts, lower(v.title))

\* lines 100-104: the candidates one response contributes
candidates_of(items) ==
    LET kept == SelectSeq(items, not_shorts)
    IN  [i \in 1..Len(kept) |->
            [title |-> kept[i].title, url |-> watch_url(kept[i].videoId)]]

\* lines 165-167 / 172-174: main logs the count and calls process_videos
found_and_process(vs) ==
    /\ found' = [found EXCEPT ![acct] = Len(vs)]
    /\ videos' = vs
    /\ idx' = 1
    /\ pc' = "process"

\* lines 75-79, 84: the subscription list arrives with n items
subscriptions_list_ok(n) ==
    /\ prog = "notes" /\ pc = "fetch_subs"
    /\ nsubs' = n
    /\ chan' = 1
    /\ responses' = <<>>
    /\ videos' = <<>>
    /\ pc' = "fetch_chan"
    /\ UNCHANGED <<other_vars, fs_start, prog, run, fs, acct, video_vars, log, found, subs_failed, auth_tried, raised_in, prev_succeeded, note_vars>>

\* the subscription list request raises and nothing catches it
subscriptions_list_fail_propagates ==
    /\ prog = "notes" /\ pc = "fetch_subs"
    /\ subs_failed' = [subs_failed EXCEPT ![acct] = TRUE]
    /\ raised_in' = "fetch_recent_videos"
    /\ pc' = "raised"
    /\ UNCHANGED <<other_vars, fs_start, prog, run, fs, acct, fetch_vars, videos, video_vars, log, found,
                   auth_tried, prev_succeeded, note_vars>>

\* lines 80-82: the subscription list request raises, [] is returned
subscriptions_list_fail ==
    /\ prog = "notes" /\ pc = "fetch_subs"
    /\ subs_failed' = [subs_failed EXCEPT ![acct] = TRUE]
    /\ found_and_process(<<>>)
    /\ UNCHANGED <<other_vars, fs_start, prog, run, fs, acct, fetch_vars, attempt, success, launched, succ_at, existed, left_at, log, auth_tried, raised_in, prev_succeeded, note_vars>>

\* number of videos the channel searches returned so far
RECURSIVE returned(_)
returned(rs) == IF rs = <<>> THEN 0 ELSE Len(Head(rs).items) + returned(Tail(rs))

\* lines 88-95, 100-104: the search of the current channel returns items
search_list_ok(items) ==
    /\ prog = "notes" /\ pc = "fetch_chan" /\ chan <= nsubs
    /\ returned(responses) + Len(items) <= MaxItems
    /\ responses' = Append(responses, [ok |-> TRUE, items |-> items])
    /\ videos' = videos \o candidates_of(items)
    /\ chan' = chan + 1
    /\ UNCHANGED <<other_vars, fs_start, prog, pc, run, fs, acct, nsubs, video_vars, log, found, subs_failed, auth_tried, raised_in, prev_succeeded, note_vars>>

\* the search of the current channel raises and, as for the subscription list,
\* the function gives up with an empty list
search_list_fail_returns_empty ==
    /\ prog = "notes" /\ pc = "fetch_chan" /\ chan <= nsubs
    /\ responses' = Append(responses, [ok |-> FALSE, items |-> <<>>])
    /\ videos' = <<>>
    /\ chan' = nsubs + 1
    /\ UNCHANGED <<other_vars, fs_start, prog, pc, run, fs, acct, nsubs, video_vars, log, found,
                   subs_failed, auth_tried, raised_in, prev_succeeded, note_vars>>

\* lines 96-98: the search of the current channel raises, the loop continues
search_list_fail ==
    /\ prog = "notes" /\ pc = "fetch_chan" /\ chan <= nsubs
    /\ responses' = Append(responses, [ok |-> FALSE, items |-> <<>>])
    /\ chan' = chan + 1
    /\ UNCHANGED <<other_vars, fs_start, prog, pc, run, fs, acct, nsubs, videos, video_vars, log, found, subs_failed, auth_tried, raised_in, prev_succeeded, note_vars>>

\* line 105: return videos; the locals of fetch_recent_videos are gone
fetch_return ==
    /\ prog = "notes" /\ pc = "fetch_chan" /\ chan > nsubs
    /\ found_and_process(videos)
    /\ nsubs' = 0 /\ chan' = 0 /\ responses' = <<>>
    /\ UNCHANGED <<other_vars, fs_start, prog, run, fs, acct, attempt, success, launched, succ_at, existed, left_at, log, subs_failed, auth_tried, raised_in, prev_succeeded, note_vars>>

----------------------------------------------------------------------------
\* youtube_to_notes.py: process_videos and run_extract_wisdom.

\* the video process_videos is at
video == videos[idx]

\* lines 131-132 for the current video
cur_path == output_path(save_path(acct), video.title)

\* the test made on the title as it is, not on the sanitized file name
note_exists_unsanitized(dir, t) == os_path_exists(os_path_join(dir, txt(t)))

\* one iteration too many
loop_continues_off_by_one(k) == k <= MAX_RETRIES

\* line 135: the test that skips a video
note_exists(dir, t) == os_path_exists(output_path(dir, t))

\* line 140: for attempt in range(MAX_RETRIES) has another iteration
loop_continues(k) == k < MAX_RETRIES

\* a log entry: outcome of the video, subprocess.run calls made for it (attempts)
\* and the attempt number its last message states (said)
Entry(outcome, n, k) ==
    [dir |-> save_path(acct), title |-> video.title, url |-> video.url,
     path |-> cur_path, existed |-> cur_path \in fs, outcome |-> outcome,
     attempts |-> n, said |-> k]

\* the for loop of line 129 moves to the next video
next_video ==
    /\ idx' = idx + 1
    /\ attempt' = 0
    /\ success' = FALSE
    /\ launched' = 0
    /\ succ_at' = 0
    /\ existed' = FALSE /\ left_at' = 0
    /\ pc' = "process"

\* lines 135-137: the note exists, the video is skipped
gate_skip ==
    /\ prog = "notes" /\ pc = "process" /\ idx <= Len(videos)
    /\ note_exists(save_path(acct), video.title)
    /\ log' = Append(log, Entry("skipped", 0, 0))
    /\ next_video
    /\ UNCHANGED <<other_vars, fs_start, prog, run, fs, acct, fetch_vars, videos, found, subs_failed, auth_tried,
                   raised_in, prev_succeeded, note_vars>>

\* lines 135, 139: the note does not exist, success = False, the retry loop starts
gate_pass ==
    /\ prog = "notes" /\ pc = "process" /\ idx <= Len(videos)
    /\ ~ note_exists(save_path(acct), video.title)
    /\ existed' = (cur_path \in fs)
    /\ left_at' = 0
    /\ success' = FALSE
    /\ attempt' = 0
    /\ launched' = 0
    /\ succ_at' = 0
    /\ pc' = "attempt"
    /\ UNCHANGED <<other_vars, fs_start, prog, run, fs, acct, fetch_vars, videos, idx, log, found, subs_failed,
                   auth_tried, raised_in, prev_succeeded, note_vars>>

\* success without the break: the loop goes on to the next attempt
attempt_ok_no_break ==
    /\ prog = "notes" /\ pc = "attempt" /\ loop_continues(attempt)
    /\ fs' = fs \cup {cur_path}
    /\ log' = Append(log, [Entry("succeeded", launched + 1, attempt + 1) EXCEPT !.existed = existed])
    /\ success' = TRUE
    /\ succ_at' = IF succ_at = 0 THEN attempt + 1 ELSE succ_at
    /\ launched' = launched + 1
    /\ attempt' = attempt + 1
    /\ UNCHANGED <<other_vars, fs_start, prog, pc, run, acct, fetch_vars, videos, idx, existed, left_at, found, subs_failed,
                   auth_tried, raised_in, prev_succeeded, note_vars>>

\* success without moving on: the same video comes back to the gate
attempt_ok_same_video ==
    /\ prog = "notes" /\ pc = "attempt" /\ loop_continues(attempt)
    /\ fs' = fs \cup {cur_path}
    /\ log' = Append(log, [Entry("succeeded", launched + 1, attempt + 1) EXCEPT !.existed = existed])
    /\ attempt' = 0 /\ success' = FALSE /\ launched' = 0 /\ succ_at' = 0 /\ existed' = FALSE /\ left_at' = 0
    /\ pc' = "process"
    /\ UNCHANGED <<other_vars, fs_start, prog, run, acct, fetch_vars, videos, idx, found,
                   subs_failed, auth_tried, raised_in, prev_succeeded, note_vars>>

\* lines 142-145 with 115-116: Fabric exits 0 in time and has written the note;
\* "Saved" is logged, success = True, break
attempt_ok ==
    /\ prog = "notes" /\ pc = "attempt" /\ loop_continues(attempt)
    /\ fs' = fs \cup {cur_path}
    /\ log' = Append(log, [Entry("succeeded", launched + 1, attempt + 1) EXCEPT !.existed = existed])
    /\ next_video
    /\ UNCHANGED <<other_vars, fs_start, prog, run, acct, fetch_vars, videos, found, subs_failed, auth_tried,
                   raised_in, prev_succeeded, note_vars>>

\* a failed attempt after which the gate is evaluated again: a file left at
\* the output path makes the video skipped
attempt_failed_regates(leaves) ==
    /\ prog = "notes" /\ pc = "attempt" /\ loop_continues(attempt)
    /\ fs' = IF leaves THEN fs \cup {cur_path} ELSE fs
    /\ \/ /\ leaves
          /\ log' = Append(log, [Entry("skipped", launched + 1, attempt + 1) EXCEPT !.existed = existed])
          /\ next_video
       \/ /\ ~ leaves
          /\ launched' = launched + 1
          /\ attempt' = attempt + 1
          /\ UNCHANGED <<pc, idx, success, succ_at, existed, left_at, log>>
    /\ UNCHANGED <<other_vars, fs_start, prog, run, acct, fetch_vars, videos, found, subs_failed,
                   auth_tried, raised_in, prev_succeeded, note_vars>>

\* a failed attempt: run_extract_wisdom returns False, "Retrying" is logged and
\* the loop goes on; Fabric may or may not have left a file at the output path
attempt_failed(leaves) ==
    /\ prog = "notes" /\ pc = "attempt" /\ loop_continues(attempt)
    /\ fs' = IF leaves THEN fs \cup {cur_path} ELSE fs
    /\ launched' = launched + 1
    /\ attempt' = attempt + 1
    /\ left_at' = IF leaves /\ left_at = 0 /\ cur_path \notin fs THEN attempt + 1 ELSE left_at
    /\ UNCHANGED <<other_vars, fs_start, prog, pc, run, acct, fetch_vars, videos, idx, success, succ_at, existed,
                   log, found, subs_failed, auth_tried, raised_in, prev_succeeded, note_vars>>

\* lines 117-118, 121: subprocess.TimeoutExpired
attempt_timeout(leaves) == attempt_failed(leaves)

\* lines 119-121: subprocess.CalledProcessError
attempt_exit_error(leaves) == attempt_failed(leaves)

\* a failed video ends the batch: process_videos returns after logging it
loop_exhausted_stops_batch ==
    /\ prog = "notes" /\ pc = "attempt" /\ ~ loop_continues(attempt)
    /\ log' = IF success THEN log
              ELSE Append(log, [Entry("failed", launched, MAX_RETRIES) EXCEPT !.existed = existed])
    /\ idx' = Len(videos) + 1
    /\ attempt' = 0 /\ success' = FALSE /\ launched' = 0 /\ succ_at' = 0 /\ existed' = FALSE /\ left_at' = 0
    /\ pc' = "process"
    /\ UNCHANGED <<other_vars, fs_start, prog, run, fs, acct, fetch_vars, videos, found, subs_failed, auth_tried,
                   raised_in, prev_succeeded, note_vars>>

\* the loop ran out and the same video is taken again from the gate
loop_exhausted_same_video ==
    /\ prog = "notes" /\ pc = "attempt" /\ ~ loop_continues(attempt)
    /\ attempt' = 0 /\ success' = FALSE /\ launched' = 0 /\ succ_at' = 0 /\ existed' = FALSE /\ left_at' = 0
    /\ pc' = "process"
    /\ UNCHANGED <<other_vars, fs_start, prog, run, fs, acct, fetch_vars, videos, idx, log, found,
                   subs_failed, auth_tried, raised_in, prev_succeeded, note_vars>>

\* a video that failed has the file its attempts left removed
loop_exhausted_removes_partial ==
    /\ prog = "notes" /\ pc = "attempt" /\ ~ loop_continues(attempt)
    /\ log' = IF success THEN log
              ELSE Append(log, [Entry("failed", launched, MAX_RETRIES) EXCEPT !.existed = existed])
    /\ fs' = IF success THEN fs ELSE fs \ {cur_path}
    /\ next_video
    /\ UNCHANGED <<other_vars, fs_start, prog, run, acct, fetch_vars, videos, found,
                   subs_failed, auth_tried, raised_in, prev_succeeded, note_vars>>

\* lines 148-149: the loop ran out; "Failed to process" is logged unless success
loop_exhausted ==
    /\ prog = "notes" /\ pc = "attempt" /\ ~ loop_continues(attempt)
    /\ log' = IF success THEN log
              ELSE Append(log, [Entry("failed", launched, MAX_RETRIES) EXCEPT !.existed = existed])
    /\ next_video
    /\ UNCHANGED <<other_vars, fs_start, prog, run, fs, acct, fetch_vars, videos, found, subs_failed, auth_tried,
                   raised_in, prev_succeeded, note_vars>>

\* process_videos returns to main: lines 167-170 go on to the business
\* account, line 174 is the end of main
process_return ==
    /\ prog = "notes" /\ pc = "process" /\ idx > Len(videos)
    /\ videos' = <<>>
    /\ idx' = 0
    /\ IF acct = 1 THEN acct' = 2 /\ pc' = "auth"
                   ELSE acct' = acct /\ pc' = "done"
    /\ UNCHANGED <<other_vars, fs_start, prog, run, fs, fetch_vars, attempt, success, launched, succ_at, existed, left_at,
                   log, found, subs_failed, auth_tried, raised_in, prev_succeeded, note_vars>>

----------------------------------------------------------------------------
\* youtube_to_note.py: main, get_video_title, run_extract_wisdom.

Urls == {"u1", "u2"}
Titles == { v.title : v \in Catalog }

NoteEntry(t, p, outcome, n) ==
    [dir |-> NOTES_DIR, title |-> t, url |-> video_urls[idx], path |-> p,
     existed |-> p \in fs, outcome |-> outcome, attempts |-> n, said |-> n]

notes_only == <<acct, fetch_vars, videos, found, subs_failed, auth_tried>>

\* the for loop of line 71 moves to the next URL
next_url ==
    /\ idx' = idx + 1
    /\ title' = <<>>
    /\ launched' = 0
    /\ existed' = FALSE /\ left_at' = 0
    /\ pc' = "note_loop"

\* lines 59-63: a URL is typed (a blank line changes nothing and is left out)
input_url(u) ==
    /\ prog = "note" /\ pc = "input" /\ Len(video_urls) < MaxUrls
    /\ video_urls' = Append(video_urls, u)
    /\ UNCHANGED <<other_vars, fs_start, prog, pc, run, fs, notes_only, video_vars, log, raised_in,
                   prev_succeeded, title>>

\* lines 60-61, 65-68: "done" is typed
input_done ==
    /\ prog = "note" /\ pc = "input"
    /\ IF Len(video_urls) = 0
       THEN pc' = "exit_no_urls" /\ idx' = idx
       ELSE pc' = "note_loop" /\ idx' = 1
    /\ UNCHANGED <<other_vars, fs_start, prog, run, fs, notes_only, attempt, success, launched, succ_at, existed, left_at,
                   log, raised_in, prev_succeeded, note_vars>>

\* the exception of get_video_title is not caught: main ends there
get_video_title_raise_propagates ==
    /\ prog = "note" /\ pc = "note_loop" /\ idx <= Len(video_urls)
    /\ raised_in' = "get_video_title"
    /\ pc' = "raised"
    /\ UNCHANGED <<other_vars, fs_start, prog, run, fs, notes_only, video_vars, log,
                   prev_succeeded, note_vars>>

\* lines 78-80: get_video_title raises
get_video_title_raise ==
    /\ prog = "note" /\ pc = "note_loop" /\ idx <= Len(video_urls)
    /\ log' = Append(log, NoteEntry(<<>>, <<>>, "no_title", 0))
    /\ next_url
    /\ UNCHANGED <<other_vars, fs_start, prog, run, fs, notes_only, attempt, success, succ_at, raised_in,
                   prev_succeeded, video_urls>>

\* lines 75-77: get_video_title returns None or an empty title
get_video_title_empty ==
    /\ prog = "note" /\ pc = "note_loop" /\ idx <= Len(video_urls)
    /\ log' = Append(log, NoteEntry(<<>>, <<>>, "no_title", 0))
    /\ next_url
    /\ UNCHANGED <<other_vars, fs_start, prog, run, fs, notes_only, attempt, success, succ_at, raised_in,
                   prev_succeeded, video_urls>>

\* line 74: get_video_title returns a title
get_video_title_ok(t) ==
    /\ prog = "note" /\ pc = "note_loop" /\ idx <= Len(video_urls)
    /\ title' = t
    /\ pc' = "note_gate"
    /\ UNCHANGED <<other_vars, fs_start, prog, run, fs, notes_only, video_vars, log, raised_in, prev_succeeded,
                   video_urls>>

\* line 87: the test that skips a URL
note_file_exists(t) == os_path_exists(note_output_path(t))

\* lines 87-89: the note exists, the URL is skipped
note_gate_skip ==
    /\ prog = "note" /\ pc = "note_gate"
    /\ note_file_exists(title)
    /\ log' = Append(log, NoteEntry(title, note_output_path(title), "skipped", 0))
    /\ next_url
    /\ UNCHANGED <<other_vars, fs_start, prog, run, fs, notes_only, attempt, success, succ_at, raised_in,
                   prev_succeeded, video_urls>>

\* line 87: the note does not exist
note_gate_pass ==
    /\ prog = "note" /\ pc = "note_gate"
    /\ ~ note_file_exists(title)
    /\ existed' = (note_output_path(title) \in fs)
    /\ left_at' = 0
    /\ pc' = "note_run"
    /\ UNCHANGED <<other_vars, fs_start, prog, run, fs, notes_only, idx, attempt, success, launched, succ_at, log,
                   raised_in, prev_succeeded, note_vars>>

\* lines 92-93 with 25-33: Fabric exits 0 in time and has written the note
note_run_ok ==
    /\ prog = "note" /\ pc = "note_run"
    /\ fs' = fs \cup {note_output_path(title)}
    /\ log' = Append(log, [NoteEntry(title, note_output_path(title), "succeeded",
                                     launched + 1) EXCEPT !.existed = existed])
    /\ next_url
    /\ UNCHANGED <<other_vars, fs_start, prog, run, notes_only, attempt, success, succ_at, raised_in,
                   prev_succeeded, video_urls>>

\* lines 94-95: run_extract_wisdom returns False; no retry
note_run_failed(leaves) ==
    /\ prog = "note" /\ pc = "note_run"
    /\ fs' = IF leaves THEN fs \cup {note_output_path(title)} ELSE fs
    /\ log' = Append(log, [NoteEntry(title, note_output_path(title), "failed",
                                     launched + 1) EXCEPT !.existed = existed])
    /\ next_url
    /\ UNCHANGED <<other_vars, fs_start, prog, run, notes_only, attempt, success, succ_at, raised_in,
                   prev_succeeded, video_urls>>

\* lines 34-35, 38: subprocess.TimeoutExpired
note_run_timeout(leaves) == note_run_failed(leaves)

\* lines 36-38: subprocess.CalledProcessError
note_run_exit_error(leaves) == note_run_failed(leaves)

\* line 97: "Done processing all links."
note_done ==
    /\ prog = "note" /\ pc = "note_loop" /\ idx > Len(video_urls)
    /\ pc' = "done"
    /\ UNCHANGED <<other_vars, fs_start, prog, run, fs, notes_only, video_vars, log, raised_in, prev_succeeded,
                   note_vars>>

----------------------------------------------------------------------------
\* The script has ended and is started again on the same filesystem.

Ended == pc \in {"done", "raised", "exit_no_urls"}

Saved == { <<log[i].dir, log[i].title>> : i \in { j \in 1..Len(log) : log[j].outcome = "succeeded" } }

rerun ==
    /\ Ended /\ run < MaxRuns
    /\ run' = run + 1
    /\ fs_start' = fs
    /\ prev_succeeded' = prev_succeeded \cup Saved
    /\ pc' = IF prog = "notes" THEN "auth" ELSE "input"
    /\ acct' = 1
    /\ nsubs' = 0 /\ chan' = 0 /\ responses' = <<>>
    /\ videos' = <<>>
    /\ idx' = 0 /\ attempt' = 0 /\ success' = FALSE
    /\ launched' = 0 /\ succ_at' = 0 /\ existed' = FALSE /\ left_at' = 0
    /\ log' = <<>>
    /\ found' = [a \in Accounts |-> -1]
    /\ subs_failed' = NoEntry
    /\ auth_tried' = NoEntry
    /\ raised_in' = ""
    /\ video_urls' = <<>>
    /\ title' = <<>>
    /\ UNCHANGED <<prog, fs, other_vars>>

----------------------------------------------------------------------------
Next ==
    \/ authenticate_ok
    \/ authenticate_raise
    \/ \E n \in 0..MaxSubs : subscriptions_list_ok(n)
    \/ subscriptions_list_fail
    \/ \E items \in ItemLists : search_list_ok(items)
    \/ search_list_fail
    \/ fetch_return
    \/ gate_skip
    \/ gate_pass
    \/ attempt_ok
    \/ \E leaves \in BOOLEAN : attempt_timeout(leaves)
    \/ \E leaves \in BOOLEAN : attempt_exit_error(leaves)
    \/ loop_exhausted
    \/ process_return
    \/ \E u \in Urls : input_url(u)
    \/ input_done
    \/ get_video_title_raise
    \/ get_video_title_empty
    \/ \E t \in Titles : get_video_title_ok(t)
    \/ note_gate_skip
    \/ note_gate_pass
    \/ note_run_ok
    \/ \E leaves \in BOOLEAN : note_run_timeout(leaves)
    \/ \E leaves \in BOOLEAN : note_run_exit_error(leaves)
    \/ note_done

\* one run of a script
Spec == Init /\ [][Next]_vars

\* one run in which every request and every Fabric call comes to an end: a
\* step that can be taken is taken
SpecFair == Init /\ [][Next]_vars /\ WF_vars(Next)

\* runs of a script one after the other on the same filesystem
NextRerun == Next \/ rerun

SpecRerun == Init /\ [][NextRerun]_vars

----------------------------------------------------------------------------
\* The sanitizer taken alone: a title is given, the two scripts' sanitizers
\* are called on it.

\* no script is running
NoScript ==
    /\ prog = "" /\ pc = "" /\ run = 1 /\ fs = {} /\ fs_start = {}
    /\ acct = 1 /\ nsubs = 0 /\ chan = 0 /\ responses = <<>> /\ videos = <<>>
    /\ idx = 0 /\ attempt = 0 /\ success = FALSE /\ launched = 0 /\ succ_at = 0
    /\ existed = FALSE /\ left_at = 0 /\ log = <<>> /\ found = [a \in Accounts |-> -1]
    /\ subs_failed = NoEntry /\ auth_tried = NoEntry /\ raised_in = ""
    /\ prev_succeeded = {} /\ video_urls = <<>> /\ title = <<>>

\* characters a title is made of: a letter, the two whitespace characters a
\* title may hold, an illegal character, the underscore
TitleChars == {"a", " ", "\t", ":", "_"}

InitSanitizer ==
    /\ NoScript /\ NoWindow /\ NoInstances
    /\ san_title \in SeqUpTo(TitleChars, MaxTitleLen)
    /\ san_calls = <<>>

\* youtube_to_notes.py line 131 is evaluated on the title
call_safe_title ==
    /\ Len(san_calls) < MaxCalls
    /\ san_calls' = Append(san_calls, [fn |-> "safe_title", result |-> safe_title(san_title)])
    /\ UNCHANGED <<script_vars, win_vars, inst, san_title>>

\* youtube_to_note.py sanitize_filename is called on the title
call_sanitize_filename ==
    /\ Len(san_calls) < MaxCalls
    /\ san_calls' = Append(san_calls, [fn |-> "sanitize_filename",
                                       result |-> sanitize_filename(san_title)])
    /\ UNCHANGED <<script_vars, win_vars, inst, san_title>>

NextSanitizer == call_safe_title \/ call_sanitize_filename

SpecSanitizer == InitSanitizer /\ [][NextSanitizer]_vars

----------------------------------------------------------------------------
\* The discovery window taken alone: fetch_recent_videos of youtube_to_notes.py
\* and of youtube_to_links.py with one subscribed channel that holds one video.
\* Instants are seconds.  A timestamp string is the record of the instant its
\* date and time digits denote and of the zone designators that follow them.

\* datetime.timedelta(days=DAYS_THRESHOLD), in seconds
timedelta_days == DAYS_THRESHOLD * 24 * 60 * 60

\* isoformat("T") of a naive datetime (datetime.utcnow()): no zone designator
isoformat_naive(t) == [instant |-> t, zone |-> <<>>]

\* isoformat("T") of an aware datetime (datetime.now(datetime.UTC)): the
\* offset +00:00 follows the digits
isoformat_aware(t) == [instant |-> t, zone |-> <<"+00:00">>]

\* ... + "Z"
plus_Z(ts) == [ts EXCEPT !.zone = Append(@, "Z")]

\* youtube_to_notes.py line 73
threshold_date_notes(now) == plus_Z(isoformat_naive(now - timedelta_days))

\* youtube_to_links.py line 29
threshold_date_links(now) == plus_Z(isoformat_aware(now - timedelta_days))

\* the catalog provider reads publishedAfter as an RFC 3339 timestamp: the
\* digits are followed by exactly one zone designator, Z or an offset
rfc3339_valid(ts) == ts.zone \in {<<"Z">>, <<"+00:00">>}

\* the catalog provider's answer to search().list(publishedAfter=ts) for a
\* channel holding the video v: the videos published after the instant
provider_search(ts, v) == IF v.publishedAt > ts.instant THEN <<v>> ELSE <<>>

\* the video of the channel
win_video == [videoId |-> "v1", publishedAt |-> win_published]

InitWindow ==
    /\ NoScript /\ NoSanitizer /\ NoInstances
    /\ win_script \in {"notes", "links"}
    /\ win_now \in timedelta_days..(timedelta_days + MaxClock)
    /\ win_published \in (win_now - timedelta_days - 1)..(win_now - timedelta_days + 1)
    /\ win_pc = "threshold"
    /\ win_threshold = <<>>
    /\ win_result = <<>>

\* youtube_to_notes.py line 73, youtube_to_links.py line 29
window_threshold ==
    /\ win_pc = "threshold"
    /\ win_threshold' = IF win_script = "notes" THEN threshold_date_notes(win_now)
                        ELSE threshold_date_links(win_now)
    /\ win_pc' = "search"
    /\ UNCHANGED <<script_vars, san_vars, inst, win_script, win_now, win_published,
                   win_result>>

\* youtube_to_notes.py lines 87-105, youtube_to_links.py lines 35-48: the
\* provider answers the search.  A request it rejects raises: youtube_to_notes
\* catches it and the channel contributes nothing, youtube_to_links has no
\* handler and the exception leaves fetch_recent_videos.
window_search ==
    /\ win_pc = "search"
    /\ IF rfc3339_valid(win_threshold)
       THEN /\ win_result' = [i \in 1..Len(provider_search(win_threshold, win_video)) |->
                                 watch_url(provider_search(win_threshold, win_video)[i].videoId)]
            /\ win_pc' = "returned"
       ELSE /\ win_result' = <<>>
            /\ win_pc' = IF win_script = "notes" THEN "returned" ELSE "raised"
    /\ UNCHANGED <<script_vars, san_vars, inst, win_script, win_now, win_published,
                   win_threshold>>

NextWindow == window_threshold \/ window_search

SpecWindow == InitWindow /\ [][NextWindow]_vars

----------------------------------------------------------------------------
\* Two instances of youtube_to_notes.py at process_videos for the same
\* account, with the same candidates and the same destination directory.
\* subprocess.run is a call that lasts: it is launched, then it ends.

Instances == {"A", "B"}

\* the candidate lists fetch_recent_videos may have returned to both
CandidateLists == { candidates_of(items) : items \in ItemLists } \ {<<>>}

InitTwo ==
    /\ prog = "two" /\ pc = "" /\ run = 1
    /\ fs \in {{}, {output_path(crypto_save_path, BigUpdate)}}
    /\ fs_start = fs
    /\ acct = 1 /\ nsubs = 0 /\ chan = 0 /\ responses = <<>>
    /\ videos \in CandidateLists
    /\ idx = 0 /\ attempt = 0 /\ success = FALSE /\ launched = 0 /\ succ_at = 0
    /\ existed = FALSE /\ left_at = 0 /\ log = <<>> /\ found = [a \in Accounts |-> -1]
    /\ subs_failed = NoEntry /\ auth_tried = NoEntry /\ raised_in = ""
    /\ prev_succeeded = {} /\ video_urls = <<>> /\ title = <<>>
    /\ NoSanitizer /\ NoWindow
    /\ inst = [i \in Instances |->
                 [pc |-> "process", idx |-> 1, attempt |-> 0, success |-> FALSE]]

\* what the instances leave alone
two_frame == <<prog, pc, run, fs_start, acct, nsubs, chan, responses, videos, idx,
               attempt, success, launched, succ_at, existed, left_at, log, found, subs_failed,
               auth_tried, raised_in, prev_succeeded, video_urls, title, san_vars,
               win_vars>>

\* lines 131-132 for the video instance i is at
inst_path(i) == output_path(save_path(acct), videos[inst[i].idx].title)

\* the for loop of line 129 of instance i moves to the next video
inst_next_video(i) ==
    inst' = [inst EXCEPT ![i] = [pc |-> "process", idx |-> inst[i].idx + 1,
                                 attempt |-> 0, success |-> FALSE]]

\* lines 135-137 in instance i: the note exists, the video is skipped
inst_gate_skip(i) ==
    /\ prog = "two" /\ inst[i].pc = "process" /\ inst[i].idx <= Len(videos)
    /\ note_exists(save_path(acct), videos[inst[i].idx].title)
    /\ inst_next_video(i)
    /\ UNCHANGED <<two_frame, fs>>

\* a gate that also looks at the other instance: the video is left to an
\* instance that already passed the gate for the same path
inst_gate_pass_locked(i) ==
    /\ prog = "two" /\ inst[i].pc = "process" /\ inst[i].idx <= Len(videos)
    /\ ~ note_exists(save_path(acct), videos[inst[i].idx].title)
    /\ \A j \in Instances \ {i} :
          ~ (inst[j].pc \in {"attempt", "running"} /\ inst_path(j) = inst_path(i))
    /\ inst' = [inst EXCEPT ![i].pc = "attempt", ![i].attempt = 0, ![i].success = FALSE]
    /\ UNCHANGED <<two_frame, fs>>

\* lines 135, 139 in instance i: the note does not exist, the retry loop starts
inst_gate_pass(i) ==
    /\ prog = "two" /\ inst[i].pc = "process" /\ inst[i].idx <= Len(videos)
    /\ ~ note_exists(save_path(acct), videos[inst[i].idx].title)
    /\ inst' = [inst EXCEPT ![i].pc = "attempt", ![i].attempt = 0, ![i].success = FALSE]
    /\ UNCHANGED <<two_frame, fs>>

\* lines 140-142 with 114-115 in instance i: subprocess.run is called
inst_subprocess_run(i) ==
    /\ prog = "two" /\ inst[i].pc = "attempt" /\ loop_continues(inst[i].attempt)
    /\ inst' = [inst EXCEPT ![i].pc = "running", ![i].attempt = inst[i].attempt + 1]
    /\ UNCHANGED <<two_frame, fs>>

\* lines 116, 142-145 in instance i: Fabric exits 0 in time and has written
\* the note; success = True, break
inst_run_ok(i) ==
    /\ prog = "two" /\ inst[i].pc = "running"
    /\ fs' = fs \cup {inst_path(i)}
    /\ inst_next_video(i)
    /\ UNCHANGED two_frame

\* lines 117-121, 146-147 in instance i: timeout or non-zero exit; the loop
\* goes on; Fabric may or may not have left a file
inst_run_failed(i, leaves) ==
    /\ prog = "two" /\ inst[i].pc = "running"
    /\ fs' = IF leaves THEN fs \cup {inst_path(i)} ELSE fs
    /\ inst' = [inst EXCEPT ![i].pc = "attempt"]
    /\ UNCHANGED two_frame

\* lines 148-149 in instance i: the loop ran out without success
inst_loop_exhausted(i) ==
    /\ prog = "two" /\ inst[i].pc = "attempt" /\ ~ loop_continues(inst[i].attempt)
    /\ inst_next_video(i)
    /\ UNCHANGED <<two_frame, fs>>

\* process_videos of instance i returns
inst_return(i) ==
    /\ prog = "two" /\ inst[i].pc = "process" /\ inst[i].idx > Len(videos)
    /\ inst' = [inst EXCEPT ![i].pc = "done"]
    /\ UNCHANGED <<two_frame, fs>>

NextTwo ==
    \/ \E i \in Instances : inst_gate_skip(i)
    \/ \E i \in Instances : inst_gate_pass(i)
    \/ \E i \in Instances : inst_subprocess_run(i)
    \/ \E i \in Instances : inst_run_ok(i)
    \/ \E i \in Instances : \E leaves \in BOOLEAN : inst_run_failed(i, leaves)
    \/ \E i \in Instances : inst_loop_exhausted(i)
    \/ \E i \in Instances : inst_return(i)

SpecTwo == InitTwo /\ [][NextTwo]_vars

----------------------------------------------------------------------------
\* Properties.

Entries == { log[i] : i \in 1..Len(log) }

IsAcct(a, e) == e.dir = save_path(a)
InCrypto(e) == IsAcct(1, e)
InBusiness(e) == IsAcct(2, e)

\* the log entries of one account, in order
AcctLog(a) == IF a = 1 THEN SelectSeq(log, InCrypto) ELSE SelectSeq(log, InBusiness)

TitlesOf(s) == [i \in 1..Len(s) |-> s[i].title]

\* C1: a video whose note file exists when the video is reached gets no
\* subprocess.run call and is logged as skipped, in process_videos and in
\* youtube_to_note.main.
C1_ExistingIsSkipped ==
    /\ pc \in {"attempt", "note_run"} => ~ existed
    /\ launched > 0 => ~ existed
    /\ \A e \in Entries : e.existed => e.outcome = "skipped" /\ e.attempts = 0

C1_Witness ==
    /\ prog = "notes" /\ run = 1
    /\ \E e \in Entries : e.existed /\ e.title = BigUpdate /\ e.outcome = "skipped"

\* C2: a video that passed the gate and whose attempts all failed got exactly
\* MAX_RETRIES subprocess.run calls, never more, and is logged as failed after
\* MAX_RETRIES attempts.
C2_FailedAfterMaxRetries ==
    prog = "notes" =>
        /\ launched <= MAX_RETRIES
        /\ \A e \in Entries :
              e.outcome = "failed" => e.attempts = MAX_RETRIES /\ e.said = MAX_RETRIES

C2_Witness ==
    prog = "notes" /\ \E e \in Entries : e.outcome = "failed" /\ ~ e.existed

\* C3: once an attempt succeeds no further attempt is launched for the video;
\* the number of subprocess.run calls equals the number of the successful attempt.
C3_NoAttemptAfterSuccess ==
    prog = "notes" =>
        /\ pc = "attempt" => (succ_at = 0 /\ ~ success)
        /\ succ_at > 0 => launched = succ_at
        /\ \A e \in Entries : e.outcome = "succeeded" => e.attempts = e.said

C3_Witness ==
    prog = "notes" /\ \E e \in Entries : e.outcome = "succeeded" /\ e.attempts = 2

\* C4: a failed video does not stop the batch: while process_videos runs, and
\* when it returns, every video before the current index has its log entry, in
\* list order, and every one whose note was absent was invoked.
C4_FailureDoesNotStopBatch ==
    (prog = "notes" /\ pc \in {"process", "attempt"}) =>
        LET done == AcctLog(acct)
        IN  /\ TitlesOf(done) = TitlesOf(SubSeq(videos, 1, idx - 1))
            /\ \A i \in 1..Len(done) : ~ done[i].existed => done[i].attempts >= 1
            /\ raised_in = ""

C4_Witness ==
    /\ prog = "notes" /\ pc = "process" /\ idx > Len(videos)
    /\ Len(AcctLog(acct)) = 2
    /\ AcctLog(acct)[1].outcome = "failed"
    /\ AcctLog(acct)[2].outcome = "succeeded" /\ ~ AcctLog(acct)[2].existed

NotesEnded == prog = "notes" /\ pc \in {"done", "raised"}

\* C5: a failed subscription list request leaves the account without
\* candidates and without outcomes, raises nothing, and the next account is
\* still authenticated; a run that reaches its end has one outcome for every
\* candidate of every account.
C5_DiscoveryFailureIsNotFatal ==
    /\ \A a \in Accounts : subs_failed[a] => (found[a] = 0 /\ AcctLog(a) = <<>>)
    /\ raised_in # "fetch_recent_videos"
    /\ (NotesEnded /\ subs_failed[1]) => auth_tried[2]
    /\ (prog = "notes" /\ pc = "done") =>
          \A a \in Accounts : found[a] = Len(AcctLog(a))

C5_Witness ==
    /\ prog = "notes" /\ pc = "done"
    /\ subs_failed[1] /\ ~ subs_failed[2]
    /\ AcctLog(1) = <<>>
    /\ Len(AcctLog(2)) = 1
    /\ AcctLog(2)[1].outcome = "succeeded" /\ AcctLog(2)[1].attempts = 1

\* C6: an error raised while one account is authenticated ends the work for
\* that account only: when the run has ended, every account of the run has
\* been authenticated.
C6_AuthErrorEndsOneAccountOnly ==
    NotesEnded => \A a \in Accounts : auth_tried[a]

\* the candidates the responses received so far contribute, failed queries none
RECURSIVE Contributed(_)
Contributed(rs) ==
    IF rs = <<>> THEN <<>>
    ELSE (IF Head(rs).ok THEN candidates_of(Head(rs).items) ELSE <<>>)
         \o Contributed(Tail(rs))

\* C7: in fetch_recent_videos a failed channel query contributes nothing, is
\* not propagated, and every other channel, before and after it, contributes
\* all its retained videos.
C7_ChannelFailureIsSoft ==
    (prog = "notes" /\ pc = "fetch_chan") =>
        /\ Len(responses) = chan - 1
        /\ chan <= nsubs + 1
        /\ videos = Contributed(responses)

C7_Witness ==
    /\ prog = "notes" /\ pc = "fetch_chan" /\ chan > nsubs
    /\ Len(responses) = 2
    /\ ~ responses[1].ok /\ responses[2].ok
    /\ TitlesOf(videos) = <<BigUpdate, BigColonUpdate>>

\* C8: a video that ends a run as failed has no file at its output path when
\* the run ends (so that the next run passes the gate for it).
C8_FailedLeavesNoFile ==
    (prog = "notes" /\ pc = "done") =>
        \A e \in Entries : e.outcome = "failed" => e.path \notin fs

\* C9: a video saved by an earlier run is skipped, without any subprocess.run
\* call, by a later run that meets the same title for the same save path.
C9_RerunSkipsSaved ==
    /\ \A e \in Entries :
          <<e.dir, e.title>> \in prev_succeeded => e.outcome = "skipped" /\ e.attempts = 0
    /\ (prog = "notes" /\ pc = "attempt") => <<save_path(acct), video.title>> \notin prev_succeeded
    /\ (prog = "note" /\ pc = "note_run") => <<NOTES_DIR, title>> \notin prev_succeeded

C9_Witness ==
    /\ prog = "notes" /\ run = 2
    /\ \E e \in Entries : <<e.dir, e.title>> \in prev_succeeded /\ e.outcome = "skipped"

ShortsUpper == <<"#", "S", "H", "O", "R", "T", "S">>

\* the title holds #shorts at some position, each letter in either case
HasShortsAnyCase(t) ==
    \E i \in 1..(Len(t) - 6) :
        \A k \in 1..7 : t[i + k - 1] \in {Shorts[k], ShortsUpper[k]}

\* C10: the list fetch_recent_videos builds holds no video whose title
\* contains #shorts in any letter case, and holds every returned video whose
\* title does not.
C10_ShortsExcluded ==
    /\ \A i \in 1..Len(videos) : ~ HasShortsAnyCase(videos[i].title)
    /\ (prog = "notes" /\ pc = "fetch_chan") =>
          \A j \in 1..Len(responses) : \A k \in 1..Len(responses[j].items) :
              LET it == responses[j].items[k]
              IN  ~ HasShortsAnyCase(it.title) =>
                     \E i \in 1..Len(videos) :
                        videos[i] = [title |-> it.title, url |-> watch_url(it.videoId)]

C10_Witness ==
    /\ prog = "notes" /\ pc = "fetch_chan" /\ chan > nsubs
    /\ \E j \in 1..Len(responses) : \E k \in 1..Len(responses[j].items) :
          responses[j].items[k].title = BigUpdateShorts
    /\ TitlesOf(videos) = <<BigUpdate>>

Calls == { san_calls[i] : i \in 1..Len(san_calls) }

\* number of places of s that hold the character c
Count(c, s) == Cardinality({ i \in 1..Len(s) : s[i] = c })

Whitespace == {" ", "\t"}

\* the title without its illegal characters, each maximal run of whitespace
\* taken as one underscore
RECURSIVE RunsAsOneUnderscore(_)
RunsAsOneUnderscore(s) ==
    IF s = <<>> THEN <<>>
    ELSE IF Head(s) \in IllegalChars THEN RunsAsOneUnderscore(Tail(s))
    ELSE IF Head(s) \notin Whitespace THEN <<Head(s)>> \o RunsAsOneUnderscore(Tail(s))
    ELSE LET rest == RunsAsOneUnderscore(Tail(s))
             \* the next character that is kept, if any, continues the run
             next == SelectSeq(Tail(s), NotIllegal)
         IN  IF next # <<>> /\ Head(next) \in Whitespace THEN rest ELSE <<"_">> \o rest

\* C11 as stated: every maximal run of whitespace becomes exactly one
\* underscore and the result holds no whitespace.
C11_WhitespaceRunsBecomeOneUnderscore ==
    \A c \in Calls :
        /\ \A i \in 1..Len(c.result) : c.result[i] \notin Whitespace
        /\ c.result = RunsAsOneUnderscore(san_title)

\* C11 as amended: every space character becomes exactly one underscore (a run
\* of n spaces gives n underscores), the result holds no space, and every
\* other character that is not illegal, a tab included, is kept.
C11_EachSpaceBecomesUnderscore ==
    \A c \in Calls :
        /\ Count(" ", c.result) = 0
        /\ Count("_", c.result) = Count("_", san_title) + Count(" ", san_title)
        /\ Count("\t", c.result) = Count("\t", san_title)
        /\ Count("a", c.result) = Count("a", san_title)

C11_Witness ==
    /\ san_title = <<" ", " ", "\t">>
    /\ \E c \in Calls : c.fn = "safe_title" /\ c.result = <<"_", "_", "\t">>
    /\ \E c \in Calls : c.fn = "sanitize_filename" /\ c.result = <<"_", "_", "\t">>

\* C12: for every title, the empty one and those made of illegal characters
\* included, the sanitizer returns a string no longer than the title that
\* holds none of the characters < > : " / \ | ? *, and two calls on the same
\* title return the same string.
C12_TotalAndFreeOfIllegalCharacters ==
    /\ \A c \in Calls :
          /\ c.result \in Seq(TitleChars)
          /\ Len(c.result) <= Len(san_title)
          /\ \A i \in 1..Len(c.result) : c.result[i] \notin IllegalChars
    /\ \A c, d \in Calls : c.fn = d.fn => c.result = d.result
    /\ san_title \in {<<>>, <<":">>, <<":", ":">>} => \A c \in Calls : c.result = <<>>

C12_Witness ==
    /\ san_title = <<":", ":">>
    /\ Len(san_calls) = 2
    /\ san_calls[1].fn = "sanitize_filename" /\ san_calls[2].fn = "sanitize_filename"
    /\ san_calls[1].result = <<>>

\* C13: a video is among the candidates fetch_recent_videos returns exactly
\* when it was published strictly after now - window_days: one published at
\* the threshold or earlier is not, one published a second later is.
C13_CandidatesAreThoseAfterThreshold ==
    win_pc \in {"returned", "raised"} =>
        LET threshold == win_now - DAYS_THRESHOLD * 86400
        IN  /\ win_published <= threshold => win_result = <<>>
            /\ win_published = threshold + 1 => win_result = <<watch_url("v1")>>

\* C14: the scripts never delete or modify a note: in every step the set of
\* existing paths only grows, it grows only by the output path of the attempt
\* that is running, and a path that existed when the run started is never the
\* output path of an attempt.
C14_NotesAreOnlyAdded ==
    [][ /\ fs \subseteq fs'
        /\ fs' # fs =>
              \/ prog = "notes" /\ pc = "attempt" /\ fs' = fs \cup {cur_path}
              \/ prog = "note" /\ pc = "note_run" /\ fs' = fs \cup {note_output_path(title)}
        /\ (prog = "notes" /\ pc = "attempt") => cur_path \notin fs_start
        /\ (prog = "note" /\ pc = "note_run") => note_output_path(title) \notin fs_start
      ]_vars

C14_Witness ==
    /\ prog = "note" /\ pc = "done"
    /\ fs_start # {} /\ fs_start \subseteq fs /\ fs # fs_start
    /\ Len(log) = 2
    /\ log[1].outcome = "skipped" /\ log[1].path \in fs_start
    /\ log[2].outcome = "succeeded" /\ log[2].path \in fs \ fs_start

\* the file name a title stands for: its characters in order, the illegal
\* ones left out, every space as an underscore
RECURSIVE FileNameOf(_)
FileNameOf(t) ==
    IF t = <<>> THEN <<>>
    ELSE IF Head(t) \in {"<", ">", ":", "\"", "/", "\\", "|", "?", "*"} THEN FileNameOf(Tail(t))
    ELSE <<IF Head(t) = " " THEN "_" ELSE Head(t)>> \o FileNameOf(Tail(t))

\* C15: when two candidates with different URLs have titles that give the
\* same file name and the first is saved, the second is skipped without any
\* subprocess.run call, in the same run and in every later run.
C15_SameFileNameIsSkipped ==
    /\ \A i, j \in 1..Len(log) :
          ( /\ i < j
            /\ log[i].dir = log[j].dir
            /\ log[i].url # log[j].url
            /\ log[i].outcome = "succeeded"
            /\ log[j].outcome # "no_title"
            /\ FileNameOf(log[i].title) = FileNameOf(log[j].title) )
          => (log[j].outcome = "skipped" /\ log[j].attempts = 0)
    /\ \A e \in Entries : \A p \in prev_succeeded :
          (e.outcome # "no_title" /\ p[1] = e.dir /\ FileNameOf(p[2]) = FileNameOf(e.title))
          => (e.outcome = "skipped" /\ e.attempts = 0)

C15_Witness ==
    /\ prog = "notes"
    /\ Len(log) = 2
    /\ log[1].dir = log[2].dir
    /\ log[1].title = BigUpdate /\ log[1].url = watch_url("v1") /\ log[1].outcome = "succeeded"
    /\ log[2].title = BigColonUpdate /\ log[2].url = watch_url("v3")
    /\ log[2].outcome = "skipped"

\* instance i is at the gate for a video
AtGate(i) == inst[i].pc = "process" /\ inst[i].idx <= Len(videos)

\* C16: nothing but the filesystem is looked at by the gate: while one
\* instance has passed the gate for a path and the file is not there, the other
\* instance passes the gate for the same path too, and an instance in the
\* retry loop launches its attempt whatever the other instance does; so both
\* can have an attempt in flight for the same path.
C16_NoLockAtTheGate ==
    /\ \A i, j \in Instances :
          ( /\ i # j
            /\ inst[i].pc \in {"attempt", "running"}
            /\ AtGate(j)
            /\ inst_path(j) = inst_path(i)
            /\ inst_path(j) \notin fs )
          => ENABLED inst_gate_pass(j)
    /\ \A j \in Instances :
          (inst[j].pc = "attempt" /\ inst[j].attempt < MAX_RETRIES)
          => ENABLED inst_subprocess_run(j)

C16_Witness ==
    /\ inst["A"].pc = "running" /\ inst["B"].pc = "running"
    /\ inst_path("A") = inst_path("B")
    /\ inst["A"].attempt = 1 /\ inst["B"].attempt = 1

UrlsOf(s) == [i \in 1..Len(s) |-> s[i].url]

InProcessVideos == prog = "notes" /\ pc \in {"process", "attempt"}

\* C17: process_videos consumes every candidate once and in list order: the
\* list is not changed, the index moves by one exactly when the outcome of the
\* current video is logged, a video that left the gate never comes back to it,
\* its attempt counter is never reset, and when the loop has ended the
\* outcomes are those of the candidates, one each, in order.
C17_EachCandidateConsumedOnce ==
    [][ (InProcessVideos /\ InProcessVideos' /\ acct' = acct) =>
          /\ videos' = videos
          /\ idx' \in {idx, idx + 1}
          /\ idx' = idx => log' = log
          /\ idx' = idx + 1 =>
                /\ Len(log') = Len(log) + 1
                /\ log'[Len(log')].url = video.url
                /\ log'[Len(log')].outcome \in {"skipped", "succeeded", "failed"}
          /\ pc = "attempt" =>
                \/ pc' = "attempt" /\ idx' = idx /\ attempt' = attempt + 1
                \/ pc' = "process" /\ idx' = idx + 1
          /\ idx' > Len(videos) => UrlsOf(AcctLog(acct))' = UrlsOf(videos)
      ]_vars

C17_Witness ==
    /\ prog = "notes" /\ pc = "process" /\ idx > Len(videos)
    /\ Len(videos) = 2 /\ videos[1].url # videos[2].url
    /\ UrlsOf(AcctLog(acct)) = UrlsOf(videos)
    /\ AcctLog(acct)[1].outcome = "failed" /\ AcctLog(acct)[1].attempts = MAX_RETRIES
    /\ AcctLog(acct)[2].outcome = "failed" /\ AcctLog(acct)[2].attempts = MAX_RETRIES

\* subprocess.run calls the log entries of s account for
RECURSIVE SumAttempts(_)
SumAttempts(s) == IF s = <<>> THEN 0 ELSE Head(s).attempts + SumAttempts(Tail(s))

\* subprocess.run calls made so far in the run
TotalLaunched == SumAttempts(log) + launched

\* candidates handed to process_videos so far in the run
TotalCandidates ==
    (IF found[1] > 0 THEN found[1] ELSE 0) + (IF found[2] > 0 THEN found[2] ELSE 0)

\* C18: when every request and every Fabric call comes to an end, a run of
\* youtube_to_notes.py ends, and at any time it has made at most MAX_RETRIES
\* subprocess.run calls per candidate.
C18_RunTerminatesWithinLaunchBound ==
    /\ <>(prog = "note" \/ NotesEnded)
    /\ [](prog = "notes" => TotalLaunched <= MAX_RETRIES * TotalCandidates)

C18_Witness ==
    /\ prog = "notes" /\ pc = "done"
    /\ TotalCandidates = 2
    /\ TotalLaunched = MAX_RETRIES * TotalCandidates

\* C19: the gate is evaluated once per video, before the first attempt: a
\* video is logged as skipped only from the gate, and from inside the retry
\* loop with an iteration left the only steps are subprocess.run calls for the
\* same video, whether or not a file is now at the output path.
C19_GateIsNotEvaluatedBetweenAttempts ==
    [][ prog = "notes" =>
          /\ (Len(log') > Len(log) /\ log'[Len(log')].outcome = "skipped") =>
                (pc = "process" /\ log'[Len(log')].attempts = 0)
          /\ (pc = "attempt" /\ attempt < MAX_RETRIES) =>
                \/ /\ pc' = "attempt" /\ idx' = idx
                   /\ launched' = launched + 1 /\ attempt' = attempt + 1
                   /\ log' = log
                \/ /\ pc' = "process" /\ idx' = idx + 1
                   /\ log' = Append(log, log'[Len(log')])
                   /\ log'[Len(log')].outcome = "succeeded"
                   /\ log'[Len(log')].path = cur_path
                   /\ log'[Len(log')].attempts = launched + 1
      ]_vars

C19_Witness ==
    /\ prog = "notes" /\ pc = "attempt"
    /\ ~ existed
    /\ left_at = 1
    /\ launched = 2
    /\ cur_path \in fs

\* youtube_to_note.py is inside the for loop of line 71
InNoteLoop == prog = "note" /\ pc \in {"note_loop", "note_gate", "note_run"}

\* C20: in youtube_to_note.main every URL gets at most one subprocess.run
\* call and none when its title could not be fetched; the outcomes logged are
\* those of the URLs before the current one, in order, nothing is raised, and
\* once the loop is entered "Done processing all links" is reached with one
\* outcome for every URL.
C20_OneInvocationPerUrlAndLoopCompletes ==
    /\ [](prog = "note" =>
            /\ launched = 0
            /\ raised_in = ""
            /\ \A e \in Entries :
                  /\ e.attempts <= 1
                  /\ e.outcome \in {"no_title", "skipped"} => e.attempts = 0
                  /\ e.outcome \in {"succeeded", "failed"} => e.attempts = 1
            /\ InNoteLoop => UrlsOf(log) = SubSeq(video_urls, 1, idx - 1)
            /\ pc = "done" => UrlsOf(log) = video_urls)
    /\ InNoteLoop ~> (pc = "done")

C20_Witness ==
    /\ prog = "note" /\ pc = "done"
    /\ Len(video_urls) = 2 /\ Len(log) = 2
    /\ log[1].outcome = "no_title" /\ log[1].attempts = 0
    /\ log[2].outcome = "failed" /\ log[2].attempts = 1

====
